---- MODULE Spec2Model ----
(***************************************************************************)
(* A model of anci: the command tree (anci/_tree.py), the parser builder   *)
(* and dispatcher (register, runner, main) and the handlers that compile   *)
(* a declared parameter type into an argparse rule.                        *)
(*                                                                         *)
(* The command tree is the module-level COMMAND_TREE.  It is modelled as a *)
(* function from command paths (sequences of segment names) to nodes; a    *)
(* node records which of the dictionary keys "_func", "_base_func",        *)
(* "_name", "_is_base" and "_subcommands" it holds.  A path is in the      *)
(* domain of the function exactly when the nested dictionaries hold a      *)
(* dictionary at that path.                                                *)
(***************************************************************************)
EXTENDS Integers, Sequences, FiniteSets, TLC

VARIABLES
    tree,      \* COMMAND_TREE
    nregs,     \* number of decorator applications so far
    result,    \* what the last decorator application did
    pc,        \* "import": decorators run; "done": main() has run
    argv,      \* sys.argv[1:] of the invocation
    parsers,   \* the sub-parsers register() built, by command path
    out,       \* what main() did: exit status, exception, calls, help, return
    annotation \* the type T in the annotation Arg[T, "x"] of one(x)

vars == <<tree, nregs, result, pc, argv, parsers, out, annotation>>

-----------------------------------------------------------------------------
(* Bounds *)

\* longest list of names given to @cmd / @base
MaxDepth == 3
\* number of decorator applications in one run
MaxRegs == 2

\* segment names: one of them starts with an underscore
Segments == {"a", "_b"}

\* all lists of names of length 0..d
NamesUpTo(d) == UNION {[1..n -> Segments] : n \in 0..d}

-----------------------------------------------------------------------------
(* Functions given to the decorators *)

None == "None"

\* functions decorated with @base, and functions decorated with @cmd
BaseFuncs == {"grp"}
CmdFuncs == {"add", "tot"}
\* functions of one parameter x: one, where x is required and its declared
\* type varies; dflt, the same with a default; raw, where x has no Arg
\* annotation
HandlerFuncs == {"one", "dflt", "raw"}

-----------------------------------------------------------------------------
(* The command tree *)

\* a dict() freshly made by defaultdict(dict): no key at all
EmptyNode ==
    [func |-> None, base_func |-> None, name |-> None,
     is_base |-> FALSE, subcommands |-> FALSE]

\* COMMAND_TREE = defaultdict(dict): only the root
COMMAND_TREE == (<<>> :> EmptyNode)

\* current["_subcommands"][segment] on a defaultdict(dict): the child is made
\* when it is missing
Subscript(t, cur, segment) ==
    LET child == Append(cur, segment)
    IN IF child \in DOMAIN t THEN t ELSE t @@ (child :> EmptyNode)

\* the loop shared by register_command and register_base_command:
\*   for segment in names:
\*       if "_subcommands" not in current: current["_subcommands"] = defaultdict(dict)
\*       current = current["_subcommands"][segment]
RECURSIVE Descend(_, _, _)
Descend(t, cur, rest) ==
    IF rest = <<>> THEN t
    ELSE LET t1 == [t EXCEPT ![cur].subcommands = TRUE]
             t2 == Subscript(t1, cur, Head(rest))
         IN Descend(t2, Append(cur, Head(rest)), Tail(rest))

\* the inner loop of validate_parent_commands over one parent_path: it raises
\* when a node on the way has no "_subcommands", and subscripts otherwise
RECURSIVE WalkParent(_, _, _)
WalkParent(t, cur, rest) ==
    IF rest = <<>> THEN [raised |-> FALSE, tree |-> t]
    ELSE IF ~t[cur].subcommands THEN [raised |-> TRUE, tree |-> t]
    ELSE WalkParent(Subscript(t, cur, Head(rest)), Append(cur, Head(rest)), Tail(rest))

\* the "Missing base command" test on the node reached
HasCommand(node) == node.base_func # None \/ node.func # None

\* validate_parent_commands, from index i on: [ok, missing, tree].
\* missing is the parent_path the MissingBaseCommandError names.
RECURSIVE ValidateFrom(_, _, _)
ValidateFrom(t, names, i) ==
    IF i >= Len(names) THEN [ok |-> TRUE, missing |-> <<>>, tree |-> t]
    ELSE LET parent_path == SubSeq(names, 1, i)
         IN IF parent_path = <<>> THEN ValidateFrom(t, names, i + 1)
            ELSE LET w == WalkParent(t, <<>>, parent_path)
                 IN IF w.raised
                    THEN [ok |-> FALSE, missing |-> parent_path, tree |-> w.tree]
                    ELSE IF ~HasCommand(w.tree[parent_path])
                    THEN [ok |-> FALSE, missing |-> parent_path, tree |-> w.tree]
                    ELSE ValidateFrom(w.tree, names, i + 1)

\* validation that looks at the immediate parent only
validate_immediate_parent(t, names) ==
    ValidateFrom(t, names, IF Len(names) > 1 THEN Len(names) - 1 ELSE 0)

\* no validation at all
validate_nothing(t, names) == [ok |-> TRUE, missing |-> <<>>, tree |-> t]

validate_parent_commands(t, names) == ValidateFrom(t, names, 0)

\* register_command(names, func): [raised, missing, tree]
register_command(t, names, func) ==
    LET v == validate_parent_commands(t, names)
    IN IF ~v.ok
       THEN [raised |-> "MissingBaseCommandError", missing |-> v.missing, tree |-> v.tree]
       ELSE LET d == Descend(v.tree, <<>>, names)
            IN [raised |-> None, missing |-> <<>>,
                tree |-> [d EXCEPT ![names].func = func, ![names].name = func]]

\* register_base_command(names, func): the tree afterwards (it never raises)
register_base_command(t, names, func) ==
    LET d == Descend(t, <<>>, names)
    IN [d EXCEPT ![names].base_func = func, ![names].name = func,
                 ![names].is_base = TRUE]

-----------------------------------------------------------------------------
(* Initial state *)

NoResult ==
    [op |-> "none", names |-> <<>>, func |-> None, raised |-> None,
     missing |-> <<>>, before |-> COMMAND_TREE]

NoOut ==
    [ran |-> FALSE, stage |-> None, raised |-> None, exit |-> <<>>, help |-> <<>>,
     calls |-> <<>>, ret |-> <<"none", 0>>, ns |-> <<>>, shown |-> <<>>]

\* the program before any decorator has run
Loaded ==
    /\ tree = COMMAND_TREE
    /\ nregs = 0
    /\ result = NoResult
    /\ pc = "import"
    /\ argv = <<>>
    /\ parsers = <<>>
    /\ out = NoOut

-----------------------------------------------------------------------------
(* The decorators *)

\* @cmd(*names) applied to func: decorator(func) calls register_command
cmd(names, func) ==
    /\ pc = "import"
    /\ nregs < MaxRegs
    /\ LET r == register_command(tree, names, func)
       IN /\ tree' = r.tree
          /\ result' = [op |-> "cmd", names |-> names, func |-> func,
                        raised |-> r.raised, missing |-> r.missing,
                        before |-> tree]
    /\ nregs' = nregs + 1
    /\ UNCHANGED <<pc, argv, parsers, out, annotation>>

\* @cmd applied to func without parentheses: names = (func,), and cmd itself
\* calls register_command([], func) and returns func
cmd_bare(func) ==
    /\ pc = "import"
    /\ nregs < MaxRegs
    /\ LET r == register_command(tree, <<>>, func)
       IN /\ tree' = r.tree
          /\ result' = [op |-> "cmd_bare", names |-> <<>>, func |-> func,
                        raised |-> r.raised, missing |-> r.missing,
                        before |-> tree]
    /\ nregs' = nregs + 1
    /\ UNCHANGED <<pc, argv, parsers, out, annotation>>

\* @base(*names) applied to func, and @base without parentheses (names = [])
base(names, func) ==
    /\ pc = "import"
    /\ nregs < MaxRegs
    /\ tree' = register_base_command(tree, names, func)
    /\ result' = [op |-> "base", names |-> names, func |-> func,
                  raised |-> None, missing |-> <<>>, before |-> tree]
    /\ nregs' = nregs + 1
    /\ UNCHANGED <<pc, argv, parsers, out, annotation>>

-----------------------------------------------------------------------------
(* Values of the Python program, tagged with their type *)

NoneV == <<"none", 0>>
IntV(n) == <<"int", n>>
StrV(s) == <<"str", s>>
BoolV(b) == <<"bool", b>>
FuncV(f) == <<"func", f>>
PathV(p) == <<"path", p>>
\* bytes, by the text they are the UTF-8 encoding of, and a pathlib.Path
BytesV(s) == <<"bytes", s>>
FilePathV(s) == <<"Path", s>>
ListV(kind, xs) == <<kind, xs>>
\* the closure base_command_handler(sub) made for the sub-parser at path p
HelpHandlerV(p) == <<"help_handler", p>>

\* a dictionary with one more key
Put(d, k, v) == [x \in (DOMAIN d) \cup {k} |-> IF x = k THEN v ELSE d[x]]
\* setattr for each key of d that the namespace does not have yet
PutMissing(ns, d) == [x \in (DOMAIN ns) \cup (DOMAIN d) |-> IF x \in DOMAIN ns THEN ns[x] ELSE d[x]]
\* setattr for each key of d
PutAll(ns, d) == [x \in (DOMAIN ns) \cup (DOMAIN d) |-> IF x \in DOMAIN d THEN d[x] ELSE ns[x]]
EmptyDict == [x \in {} |-> NoneV]

StartsWith(s, prefix) ==
    Len(s) >= Len(prefix) /\ SubSeq(s, 1, Len(prefix)) = prefix

\* sep.join(names)
RECURSIVE Join(_, _)
Join(names, sep) ==
    IF names = <<>> THEN ""
    ELSE IF Len(names) = 1 THEN names[1]
    ELSE names[1] \o sep \o Join(Tail(names), sep)

-----------------------------------------------------------------------------
(* int(token) *)

DigitChars == <<"0", "1", "2", "3", "4", "5", "6", "7", "8", "9">>
IsDigit(c) == \E i \in DOMAIN DigitChars : DigitChars[i] = c
DigitVal(c) == (CHOOSE i \in DOMAIN DigitChars : DigitChars[i] = c) - 1
AllDigits(s) == Len(s) > 0 /\ \A i \in 1..Len(s) : IsDigit(SubSeq(s, i, i))

RECURSIVE DecimalValue(_, _)
DecimalValue(s, acc) ==
    IF s = "" THEN acc
    ELSE DecimalValue(SubSeq(s, 2, Len(s)), acc * 10 + DigitVal(SubSeq(s, 1, 1)))

\* the result of calling something: a value, or the exception raised, with
\* the value its message shows (<<>> when it shows none)
Returned(v) == [raised |-> None, val |-> v, shown |-> <<>>]
Raised(e) == [raised |-> e, val |-> NoneV, shown |-> <<>>]
\* raise e(f"... {v} ...")
RaisedAbout(e, v) == [raised |-> e, val |-> NoneV, shown |-> <<v>>]

\* int(v) for an int or for a string of an optional sign and decimal digits:
\* ValueError on any other string
IntCast(v) ==
    IF v[1] = "int" THEN Returned(v)
    ELSE LET s == v[2]
             signed == Len(s) > 0 /\ SubSeq(s, 1, 1) \in {"-", "+"}
             digits == IF signed THEN SubSeq(s, 2, Len(s)) ELSE s
         IN IF ~AllDigits(digits) THEN RaisedAbout("ValueError", v)
            ELSE IF signed /\ SubSeq(s, 1, 1) = "-"
            THEN Returned(IntV(0 - DecimalValue(digits, 0)))
            ELSE Returned(IntV(DecimalValue(digits, 0)))

\* a float, as the fraction num / den with den a power of ten and no
\* trailing zero left in num
FloatV(num, den) == <<"float", num, den>>

RECURSIVE Normalise(_, _)
Normalise(num, den) ==
    IF den > 1 /\ num % 10 = 0 THEN Normalise(num \div 10, den \div 10)
    ELSE FloatV(num, den)

RECURSIVE PowerOfTen(_)
PowerOfTen(k) == IF k = 0 THEN 1 ELSE 10 * PowerOfTen(k - 1)

\* the position of the first "." of s, or 0
PointAt(s) ==
    IF \E i \in 1..Len(s) : SubSeq(s, i, i) = "."
    THEN CHOOSE i \in 1..Len(s) :
            SubSeq(s, i, i) = "." /\ \A j \in 1..(i - 1) : SubSeq(s, j, j) # "."
    ELSE 0

\* float(v) for an int, a float, or a string made of an optional sign,
\* decimal digits and at most one point: ValueError on any other string
FloatCast(v) ==
    IF v[1] = "float" THEN Returned(v)
    ELSE IF v[1] = "int" THEN Returned(FloatV(v[2], 1))
    ELSE LET s == v[2]
             signed == Len(s) > 0 /\ SubSeq(s, 1, 1) \in {"-", "+"}
             body == IF signed THEN SubSeq(s, 2, Len(s)) ELSE s
             point == PointAt(body)
             whole == IF point = 0 THEN body ELSE SubSeq(body, 1, point - 1)
             frac == IF point = 0 THEN "" ELSE SubSeq(body, point + 1, Len(body))
             digits == whole \o frac
             sign == IF signed /\ SubSeq(s, 1, 1) = "-" THEN 0 - 1 ELSE 1
         IN IF ~AllDigits(digits) THEN RaisedAbout("ValueError", v)
            ELSE Returned(Normalise(sign * DecimalValue(digits, 0), PowerOfTen(Len(frac))))

\* a number as a fraction
Numerator(v) == v[2]
Denominator(v) == IF v[1] = "float" THEN v[3] ELSE 1

-----------------------------------------------------------------------------
(* Declared parameter types: typing hints and annotated_types metadata *)

\* a type hint: its origin (the type itself for a scalar), its type arguments
\* and, for Annotated[T, m1, ...], the metadata
Scalar(t) == [origin |-> t, args |-> <<>>, meta |-> <<>>]
Container(kind, elem) == [origin |-> kind, args |-> <<elem>>, meta |-> <<>>]
\* kind[args...], with one argument or more
Generic(kind, args) == [origin |-> kind, args |-> args, meta |-> <<>>]
Annotated(hint, m) == [hint EXCEPT !.meta = Append(@, m)]

\* typing.get_origin and typing.get_args of a hint without its metadata: a
\* bare class such as int or list has no origin
get_origin(hint) == IF hint.args = <<>> THEN None ELSE hint.origin
get_args(hint) == hint.args

Gt(n) == [tag |-> "Gt", v |-> n]
Ge(n) == [tag |-> "Ge", v |-> n]
Lt(n) == [tag |-> "Lt", v |-> n]
Le(n) == [tag |-> "Le", v |-> n]

\* Interval(gt=, ge=, lt=, le=): each bound is <<>> for None or <<n>>
Interval(gt, ge, lt, le) ==
    [tag |-> "Interval", gt |-> gt, ge |-> ge, lt |-> lt, le |-> le]

\* MinLen(n), MaxLen(n) and Len(min_length, max_length): the attributes the
\* object has (none of the three has a "length"), and their values (<<>> for
\* the None of Len's max_length)
MinLen(n) == [tag |-> "MinLen", has_length |-> FALSE, length |-> <<>>, has_min |-> TRUE,
              min_length |-> <<n>>, has_max |-> FALSE, max_length |-> <<>>]
MaxLen(n) == [tag |-> "MaxLen", has_length |-> FALSE, length |-> <<>>, has_min |-> FALSE,
              min_length |-> <<>>, has_max |-> TRUE, max_length |-> <<n>>]
LenMeta(min_length, max_length) ==
    [tag |-> "Len", has_length |-> FALSE, length |-> <<>>, has_min |-> TRUE,
     min_length |-> <<min_length>>, has_max |-> TRUE, max_length |-> max_length]

ContainerOrigins == {"list", "tuple", "set"}

\* a callable handed to argparse, with what its closure holds; NoCallable
\* stands for an absent one
Callable(fn, elem, op, threshold) ==
    [fn |-> fn, elem |-> elem, op |-> op, threshold |-> threshold,
     lower |-> <<>>, lower_inclusive |-> TRUE,
     upper |-> <<>>, upper_inclusive |-> TRUE,
     has_length |-> FALSE, length |-> <<>>,
     has_min |-> FALSE, min_length |-> <<>>,
     has_max |-> FALSE, max_length |-> <<>>]
NoCallable == Callable(None, None, None, 0)
Plain(fn) == Callable(fn, None, None, 0)

\* keyword arguments for add_argument, or the TypeError the handler raised
Kwargs(type, nargs, action, container_type, cast, validate) ==
    [raised |-> None, type |-> type, nargs |-> nargs, action |-> action,
     container_type |-> container_type, cast |-> cast, validate |-> validate,
     min_len |-> <<>>, max_len |-> <<>>]
BuildError == [Kwargs(NoCallable, None, "store", None, NoCallable, NoCallable)
                  EXCEPT !.raised = "TypeError"]

\* operator.gt, .ge, .lt and .le (and >, >=, <, <=) on a number a and an
\* integer b
operator(name, a, b) ==
    CASE name = "gt" -> Numerator(a) > b * Denominator(a)
      [] name = "ge" -> Numerator(a) >= b * Denominator(a)
      [] name = "lt" -> Numerator(a) < b * Denominator(a)
      [] name = "le" -> Numerator(a) <= b * Denominator(a)

\* the comparisons with the threshold itself always allowed
op_func_inclusive(tag, a, b) ==
    CASE tag \in {"Gt", "Ge"} -> operator("ge", a, b)
      [] tag \in {"Lt", "Le"} -> operator("le", a, b)

\* op_func of the four InequalityHandler subclasses
op_func(tag, a, b) ==
    CASE tag = "Gt" -> operator("gt", a, b)
      [] tag = "Ge" -> operator("ge", a, b)
      [] tag = "Lt" -> operator("lt", a, b)
      [] tag = "Le" -> operator("le", a, b)

\* InequalityHandler.build(name, annotated_type, metadata)
InequalityHandler_build(name, annotated_type, metadata) ==
    IF get_origin(annotated_type) \in ContainerOrigins
    THEN LET element_type == get_args(annotated_type)[1]
         IN IF element_type \notin {"int", "float"} THEN BuildError
            ELSE Kwargs(Plain(element_type), "+", "ConstrainedContainerAction",
                        annotated_type.origin, Plain(element_type),
                        Callable("validate_container", element_type,
                                 metadata.tag, metadata.v))
    ELSE IF annotated_type.origin \notin {"int", "float"} \/ annotated_type.args # <<>>
    THEN BuildError
    ELSE Kwargs(Callable("validate_scalar", annotated_type.origin,
                         metadata.tag, metadata.v),
                None, "store", None, NoCallable, NoCallable)

\* the closure with both bounds exclusive, whichever of gt, ge, lt, le is given
IntervalClosure_open(fn, elem, metadata) ==
    [Callable(fn, elem, None, 0) EXCEPT
        !.lower = IF metadata.gt # <<>> THEN metadata.gt ELSE metadata.ge,
        !.lower_inclusive = FALSE,
        !.upper = IF metadata.lt # <<>> THEN metadata.lt ELSE metadata.le,
        !.upper_inclusive = FALSE]

\* the closure of IntervalHandler.build: lower, lower_inclusive, upper,
\* upper_inclusive
IntervalClosure(fn, elem, metadata) ==
    [Callable(fn, elem, None, 0) EXCEPT
        !.lower = IF metadata.gt # <<>> THEN metadata.gt ELSE metadata.ge,
        !.lower_inclusive = (metadata.ge # <<>> \/ metadata.gt = <<>>),
        !.upper = IF metadata.lt # <<>> THEN metadata.lt ELSE metadata.le,
        !.upper_inclusive = (metadata.le # <<>> \/ metadata.lt = <<>>)]

\* the build without the test for two lower or two upper bounds
IntervalHandler_build_unchecked(name, annotated_type, metadata) ==
    IF get_origin(annotated_type) \in ContainerOrigins
    THEN LET element_type == get_args(annotated_type)[1]
         IN IF element_type \notin {"int", "float"} THEN BuildError
            ELSE Kwargs(Plain(element_type), "+", "ConstrainedContainerAction",
                        annotated_type.origin, Plain(element_type),
                        IntervalClosure("Interval_validate_container", element_type, metadata))
    ELSE IF annotated_type.origin \notin {"int", "float"} \/ annotated_type.args # <<>>
    THEN BuildError
    ELSE Kwargs(IntervalClosure("Interval_validate_scalar", annotated_type.origin, metadata),
                None, "store", None, NoCallable, NoCallable)

\* IntervalHandler.build(name, annotated_type, metadata)
IntervalHandler_build(name, annotated_type, metadata) ==
    IF metadata.gt # <<>> /\ metadata.ge # <<>> THEN BuildError
    ELSE IF metadata.lt # <<>> /\ metadata.le # <<>> THEN BuildError
    ELSE IF get_origin(annotated_type) \in ContainerOrigins
    THEN LET element_type == get_args(annotated_type)[1]
         IN IF element_type \notin {"int", "float"} THEN BuildError
            ELSE Kwargs(Plain(element_type), "+", "ConstrainedContainerAction",
                        annotated_type.origin, Plain(element_type),
                        IntervalClosure("Interval_validate_container", element_type, metadata))
    ELSE IF annotated_type.origin \notin {"int", "float"} \/ annotated_type.args # <<>>
    THEN BuildError
    ELSE Kwargs(IntervalClosure("Interval_validate_scalar", annotated_type.origin, metadata),
                None, "store", None, NoCallable, NoCallable)

\* LenHandler.build(name, annotated_type, metadata)
LenHandler_build(name, annotated_type, metadata) ==
    IF get_origin(annotated_type) \in ContainerOrigins
    THEN [Kwargs(NoCallable, "+", "ConstrainedContainerAction", annotated_type.origin,
                 Plain(get_args(annotated_type)[1]), NoCallable)
            EXCEPT !.min_len = metadata.min_length, !.max_len = metadata.max_length]
    ELSE IF annotated_type.origin \in {"str", "bytes"} /\ annotated_type.args = <<>>
    THEN Kwargs([Callable("validator", None, None, 0) EXCEPT
                    !.has_length = metadata.has_length, !.length = metadata.length,
                    !.has_min = metadata.has_min, !.min_length = metadata.min_length,
                    !.has_max = metadata.has_max, !.max_length = metadata.max_length],
                None, "store", None, NoCallable, NoCallable)
    ELSE BuildError

\* the keys of TYPE_HANDLERS that are scalar types, and those of them whose
\* handler class has a cast attribute
ScalarTypes == {"float", "int", "str", "bool", "bytes", "Path"}
TypesWithCast == {"float", "int", "str", "Path"}
\* the keys of TYPE_HANDLERS
TYPE_HANDLERS == ScalarTypes \cup ContainerOrigins

\* what each scalar handler's build returns as "type"
TypeCallable(t) ==
    CASE t = "bool" -> "str_to_bool"
      [] t = "bytes" -> "to_bytes"
      [] OTHER -> t

\* BaseContainerHandler.build(name, annotated_type) for list, tuple and set
BaseContainerHandler_build(name, annotated_type) ==
    IF annotated_type.args = <<>> THEN BuildError
    ELSE IF \E i \in DOMAIN annotated_type.args :
                /\ annotated_type.args[i] # annotated_type.args[1]
                /\ annotated_type.args[i] # "Ellipsis"
    THEN BuildError
    ELSE IF annotated_type.args[1] \notin TYPE_HANDLERS THEN BuildError
    ELSE IF annotated_type.args[1] \notin TypesWithCast
    THEN [BuildError EXCEPT !.raised = "AttributeError"]
    ELSE Kwargs(NoCallable, "+", "ContainerCastAction", annotated_type.origin,
                Plain(annotated_type.args[1]), NoCallable)

\* the metadata types ANNOTATED_HANDLERS has a handler for
InequalityTags == {"Gt", "Ge", "Lt", "Le"}
LenTags == {"MaxLen", "MinLen", "Len"}
AnnotatedTags == InequalityTags \cup {"Interval"} \cup LenTags

\* handler_cls().build(name, base_type, meta) of the handler of meta's type
AnnotatedHandler_build(name, base_type, meta) ==
    IF meta.tag \in InequalityTags THEN InequalityHandler_build(name, base_type, meta)
    ELSE IF meta.tag = "Interval" THEN IntervalHandler_build(name, base_type, meta)
    ELSE LenHandler_build(name, base_type, meta)

\* get_kwargs(name, arg_type)
get_kwargs(name, arg_type) ==
    LET handled == {i \in DOMAIN arg_type.meta : arg_type.meta[i].tag \in AnnotatedTags}
        first == CHOOSE i \in handled : \A j \in handled : i <= j
        base_type == [arg_type EXCEPT !.meta = <<>>]
    IN IF handled # {}
       THEN AnnotatedHandler_build(name, base_type, arg_type.meta[first])
       ELSE IF arg_type.meta # <<>> THEN BuildError
       ELSE IF arg_type.origin \in ContainerOrigins
       THEN BaseContainerHandler_build(name, arg_type)
       ELSE IF arg_type.origin \in ScalarTypes /\ arg_type.args = <<>>
       THEN Kwargs(Plain(TypeCallable(arg_type.origin)), None, "store", None,
                   NoCallable, NoCallable)
       ELSE BuildError

-----------------------------------------------------------------------------
(* Calling what the handlers hand to argparse *)

\* int(v), float(v) and str(v) of a token
Cast(elem, v) ==
    CASE elem = "int" -> IntCast(v)
      [] elem = "float" -> FloatCast(v)
      [] elem = "str" -> Returned(v)

\* str.lower() on ASCII text
UpperChars == "ABCDEFGHIJKLMNOPQRSTUVWXYZ"
LowerChars == "abcdefghijklmnopqrstuvwxyz"
LowerChar(c) ==
    IF \E i \in 1..Len(UpperChars) : SubSeq(UpperChars, i, i) = c
    THEN LET i == CHOOSE j \in 1..Len(UpperChars) : SubSeq(UpperChars, j, j) = c
         IN SubSeq(LowerChars, i, i)
    ELSE c
RECURSIVE Lower(_)
Lower(s) == IF s = "" THEN "" ELSE LowerChar(SubSeq(s, 1, 1)) \o Lower(SubSeq(s, 2, Len(s)))

\* the spellings taken as written, without v.lower()
str_to_bool_exact(v) ==
    IF v[1] = "bool" THEN Returned(v)
    ELSE IF v[2] \in {"true", "t", "yes", "1"} THEN Returned(BoolV(TRUE))
    ELSE IF v[2] \in {"false", "f", "no", "0"} THEN Returned(BoolV(FALSE))
    ELSE RaisedAbout("ArgumentTypeError", v)

\* str_to_bool(v) of BoolHandler.build
str_to_bool(v) ==
    IF v[1] = "bool" THEN Returned(v)
    ELSE IF Lower(v[2]) \in {"true", "t", "yes", "1"} THEN Returned(BoolV(TRUE))
    ELSE IF Lower(v[2]) \in {"false", "f", "no", "0"} THEN Returned(BoolV(FALSE))
    ELSE RaisedAbout("ArgumentTypeError", v)

\* to_bytes(v) of BytesHandler.build: v.encode("utf-8")
to_bytes(v) == Returned(BytesV(v[2]))

\* Path(v)
PathCast(v) == Returned(FilePathV(v[2]))

\* bool(v) and bytes(v), the classes called on a token: any text but the
\* empty one is true, and bytes() of text without an encoding is a TypeError
BoolClass(v) == Returned(BoolV(v[2] # ""))
BytesClass(v) == Raised("TypeError")

\* the comparison of validate_scalar, once the value is cast
Compared(c, cast) ==
    IF cast.raised # None THEN cast
    ELSE IF ~op_func(c.op, cast.val, c.threshold)
    THEN RaisedAbout("ArgumentTypeError", cast.val)
    ELSE cast

\* validate_scalar(value) of InequalityHandler.build
validate_scalar(c, value) == Compared(c, Cast(c.elem, value))

\* validate_container(values) of InequalityHandler.build: the first element
\* that fails to cast or to compare decides
RECURSIVE validate_container(_, _)
ValidatedRest(c, values, one) ==
    IF one.raised # None THEN one ELSE validate_container(c, Tail(values))

validate_container(c, values) ==
    IF values = <<>> THEN Returned(NoneV)
    ELSE ValidatedRest(c, values, validate_scalar(c, Head(values)))

\* the bounds of the closure of IntervalHandler.build on a cast value
WithinInterval(c, cast) ==
    IF cast.raised # None THEN cast
    ELSE IF c.lower # <<>> /\ c.lower_inclusive /\ operator("lt", cast.val, c.lower[1])
    THEN Raised("ArgumentTypeError")
    ELSE IF c.lower # <<>> /\ ~c.lower_inclusive /\ operator("le", cast.val, c.lower[1])
    THEN Raised("ArgumentTypeError")
    ELSE IF c.upper # <<>> /\ c.upper_inclusive /\ operator("gt", cast.val, c.upper[1])
    THEN Raised("ArgumentTypeError")
    ELSE IF c.upper # <<>> /\ ~c.upper_inclusive /\ operator("ge", cast.val, c.upper[1])
    THEN Raised("ArgumentTypeError")
    ELSE cast

\* validate_scalar(value) of IntervalHandler.build
Interval_validate_scalar(c, value) == WithinInterval(c, Cast(c.elem, value))

\* validate_container(values) of IntervalHandler.build
RECURSIVE Interval_validate_container(_, _)
IntervalRest(c, values, one) ==
    IF one.raised # None THEN one ELSE Interval_validate_container(c, Tail(values))

Interval_validate_container(c, values) ==
    IF values = <<>> THEN Returned(NoneV)
    ELSE IntervalRest(c, values, Interval_validate_scalar(c, Head(values)))

\* validator(value) of LenHandler.build, value being a token: comparing an
\* int with the None of Len's max_length is a TypeError
validator(c, value) ==
    IF c.has_length /\ Len(value[2]) # c.length[1] THEN Raised("ArgumentTypeError")
    ELSE IF c.has_min /\ Len(value[2]) < c.min_length[1] THEN Raised("ArgumentTypeError")
    ELSE IF c.has_max /\ c.max_length = <<>> THEN Raised("TypeError")
    ELSE IF c.has_max /\ Len(value[2]) > c.max_length[1] THEN Raised("ArgumentTypeError")
    ELSE Returned(value)

\* self.validate(values) of ConstrainedContainerAction
Validate(c, values) ==
    IF c.fn = "validate_container" THEN validate_container(c, values)
    ELSE Interval_validate_container(c, values)

\* a callable applied to one value
Apply(c, value) ==
    CASE c.fn \in {"int", "float", "str"} -> Cast(c.fn, value)
      [] c.fn = "str_to_bool" -> str_to_bool(value)
      [] c.fn = "to_bytes" -> to_bytes(value)
      [] c.fn = "Path" -> PathCast(value)
      [] c.fn = "bool" -> BoolClass(value)
      [] c.fn = "bytes" -> BytesClass(value)
      [] c.fn = "validate_scalar" -> validate_scalar(c, value)
      [] c.fn = "Interval_validate_scalar" -> Interval_validate_scalar(c, value)
      [] c.fn = "validator" -> validator(c, value)

\* [f(v) for v in values]: the list, or the first exception
RECURSIVE ApplyEach(_, _, _)
\* the rest of the list, once f(v) is known for its first value
ApplyRest(c, values, acc, one) ==
    IF one.raised # None
    THEN [raised |-> one.raised, val |-> one.val, shown |-> one.shown,
          arg |-> Head(values)]
    ELSE ApplyEach(c, Tail(values), Append(acc, one.val))

ApplyEach(c, values, acc) ==
    IF values = <<>> THEN Returned(acc)
    ELSE ApplyRest(c, values, acc, Apply(c, Head(values)))

-----------------------------------------------------------------------------
(* The functions registered as commands *)

\* one parameter of a signature: is_arg says whether its annotation is an
\* anci.Arg[...]
Parameter(name, hint, has_default, default) ==
    [name |-> name, is_arg |-> TRUE, hint |-> hint,
     has_default |-> has_default, default |-> default]
\* a parameter annotated with the type itself, such as x: int
Unwrapped(name, hint) ==
    [name |-> name, is_arg |-> FALSE, hint |-> hint,
     has_default |-> FALSE, default |-> NoneV]

\* inspect.signature(func).parameters
\*   def grp(): ...
\*   def add(x: Arg[Annotated[int, Ge(0)]], y: Arg[int] = 5): return x + y
\*   def tot(v: Arg[Annotated[list[int], Ge(0)]] = [0]): ...
\*   def one(x: Arg[T, "x"]): ...      with T the declared type, annotation
\*   def dflt(x: Arg[T, "x"] = 9): ...
\*   def raw(x: int): ...
Signature(func) ==
    CASE func = "add" ->
            <<Parameter("x", Annotated(Scalar("int"), Ge(0)), FALSE, NoneV),
              Parameter("y", Scalar("int"), TRUE, IntV(5))>>
      [] func = "tot" ->
            <<Parameter("v", Annotated(Container("list", "int"), Ge(0)), TRUE,
                        ListV("list", <<IntV(0)>>))>>
      [] func = "one" -> <<Parameter("x", annotation, FALSE, NoneV)>>
      [] func = "dflt" -> <<Parameter("x", annotation, TRUE, IntV(9))>>
      [] func = "raw" -> <<Unwrapped("x", Scalar("int"))>>
      [] OTHER -> <<>>

ParamNames(func) == {Signature(func)[i].name : i \in DOMAIN Signature(func)}
RequiredNames(func) ==
    {Signature(func)[i].name : i \in {j \in DOMAIN Signature(func) : ~Signature(func)[j].has_default}}

\* what the body of the function returns
Body(func, kwargs) ==
    IF func = "add" THEN IntV(kwargs["x"][2] + kwargs["y"][2]) ELSE NoneV

\* func(**kwargs): Python raises TypeError, before the body runs, for an
\* unexpected keyword or a missing required one
Call(func, kwargs) ==
    IF (DOMAIN kwargs) \subseteq ParamNames(func) /\ RequiredNames(func) \subseteq DOMAIN kwargs
    THEN Returned(Body(func, kwargs))
    ELSE Raised("TypeError")

-----------------------------------------------------------------------------
(* register(): building the sub-parsers from the tree *)

\* add_subparser(subparser, func): the --name options of the sub-parser, or
\* the error raised while they are built
RECURSIVE OptionsFrom(_, _)
\* one turn of the loop: the parameter, the kwargs get_kwargs built for it
\* and subparser.add_argument
add_argument(params, acc, param, kwargs) ==
    IF ~param.is_arg THEN [raised |-> "TypeError", options |-> acc]
    ELSE IF kwargs.raised # None THEN [raised |-> kwargs.raised, options |-> acc]
    ELSE OptionsFrom(Tail(params),
            Append(acc, [dest |-> param.name, kwargs |-> kwargs,
                         required |-> ~param.has_default,
                         default |-> param.default]))

OptionsFrom(params, acc) ==
    IF params = <<>> THEN [raised |-> None, options |-> acc]
    ELSE add_argument(params, acc, Head(params),
                      get_kwargs(Head(params).name, Head(params).hint))

add_subparser(func) == OptionsFrom(Signature(func), <<>>)

\* the children of path p in the tree: the items of its "_subcommands"
Children(t, p) ==
    {q \in DOMAIN t : Len(q) = Len(p) + 1 /\ SubSeq(q, 1, Len(p)) = p}

\* register_commands_from_dict(subparsers_obj, commands_dict, command_path),
\* with the inner register_command: the paths below command_path that get a
\* sub-parser.  A name that starts with "_" is skipped; a node with neither
\* "_func" nor "_base_func" gets nothing, and nothing below it is visited.
RECURSIVE register_commands_from_dict(_, _)
register_commands_from_dict(t, command_path) ==
    UNION {IF StartsWith(q[Len(q)], "_") THEN {}
           ELSE IF ~HasCommand(t[q]) THEN {}
           ELSE {q} \cup (IF t[q].subcommands
                          THEN register_commands_from_dict(t, q) ELSE {})
           : q \in Children(t, command_path)}

\* top_level_commands of register(): the keys of COMMAND_TREE that do not start
\* with "_".  The registration functions write only "_subcommands", "_func",
\* "_name", "_base_func" and "_is_base" there, so there is none, and
\* register_recursive is never called.
top_level_commands(t) == {}

\* the paths register() builds a sub-parser for
BuiltPaths(t) ==
    IF top_level_commands(t) = {} /\ t[<<>>].subcommands
    THEN register_commands_from_dict(t, <<>>)
    ELSE {}

\* the parser built at path p (the ArgumentParser of main() at <<>>): its
\* set_defaults, its options, and its add_subparsers action if it has one
ParserAt(t, built, p) ==
    LET choices == {q[Len(q)] : q \in {c \in built : Len(c) = Len(p) + 1 /\ SubSeq(c, 1, Len(p)) = p}}
    IN IF p = <<>>
       THEN [defaults |-> EmptyDict, options |-> <<>>, subparsers |-> TRUE,
             dest |-> "command", required |-> TRUE, choices |-> choices]
       ELSE [defaults |->
                IF t[p].func # None
                THEN ("func" :> FuncV(t[p].func)) @@ ("command_path" :> PathV(p))
                        @@ ("is_base" :> BoolV(FALSE))
                ELSE ("func" :> HelpHandlerV(p)) @@ ("command_path" :> PathV(p))
                        @@ ("is_base" :> BoolV(TRUE)),
             options |-> IF t[p].func # None THEN add_subparser(t[p].func).options ELSE <<>>,
             subparsers |-> t[p].subcommands,
             dest |-> "subcmd_" \o Join(p, "_"),
             required |-> FALSE,
             choices |-> choices]

\* COMMAND_TREE["_subcommands"]: a subscript of the defaultdict, which makes
\* the key when it is missing
GetSubcommands(t) == [t EXCEPT ![<<>>].subcommands = TRUE]

\* the subscript without the test that the key is there
TreeRead_unguarded(t) == GetSubcommands(t)

\* COMMAND_TREE once register() has read it: .items(), and
\* COMMAND_TREE["_subcommands"] under `if "_subcommands" in COMMAND_TREE`; the
\* nodes below are read with `in`, .items() and subscripts of keys tested
\* first
TreeRead(t) == IF t[<<>>].subcommands THEN GetSubcommands(t) ELSE t

\* register(subparsers): the parsers by path, or the error a handler raised,
\* and COMMAND_TREE afterwards
register(t) ==
    LET built == BuiltPaths(t)
        failed == {q \in built : t[q].func # None /\ add_subparser(t[q].func).raised # None}
    IN IF failed # {}
       THEN [raised |-> add_subparser(t[CHOOSE q \in failed : TRUE].func).raised,
             parsers |-> <<>>, tree |-> TreeRead(t)]
       ELSE [raised |-> None,
             parsers |-> [p \in built \cup {<<>>} |-> ParserAt(t, built, p)],
             tree |-> TreeRead(t)]

-----------------------------------------------------------------------------
(* parse_args(): argparse on the built parsers *)

\* '^-\d+$': argparse takes such a token for a value, since no option of
\* these parsers looks like a negative number
IsNegativeNumber(tok) ==
    Len(tok) > 1 /\ SubSeq(tok, 1, 1) = "-" /\ AllDigits(SubSeq(tok, 2, Len(tok)))

\* a token argparse takes for an option string
IsOptionString(tok) == StartsWith(tok, "-") /\ ~IsNegativeNumber(tok)

\* the option of the parser that the option string names, as a set
OptionsNamed(parser, tok) ==
    {i \in DOMAIN parser.options : "--" \o parser.options[i].dest = tok}

\* the tokens after position i that are values: up to the next option string
RECURSIVE ValuesAfter(_, _)
ValuesAfter(args, i) ==
    IF i > Len(args) \/ IsOptionString(args[i]) THEN <<>>
    ELSE <<args[i]>> \o ValuesAfter(args, i + 1)

\* shown is the value of the argument that the message of a parse error shows
\* when a type callable refused it (<<>> for any other message)
ParseOk(ns, extras) ==
    [status |-> "ok", raised |-> None, ns |-> ns, extras |-> extras, shown |-> <<>>]
\* parser.error(): usage message, exit status 2
ParseError ==
    [status |-> "error", raised |-> None, ns |-> EmptyDict, extras |-> <<>>, shown |-> <<>>]
\* an exception that leaves parse_args
ParseException(e) ==
    [status |-> "exception", raised |-> e, ns |-> EmptyDict, extras |-> <<>>, shown |-> <<>>]
\* argparse's _get_value when the type callable raised: the message of an
\* ArgumentTypeError is printed as it is, and a TypeError or ValueError gives
\* "invalid <type> value: <the argument string>"
InvalidValue(typed) ==
    [ParseError EXCEPT !.shown = IF typed.raised = "ArgumentTypeError" THEN typed.shown
                                 ELSE <<typed.arg>>]

\* the container the actions wrap the cast elements in
Wrap(container_type, xs) ==
    IF container_type = "set"
    THEN ListV("set", {xs[i] : i \in DOMAIN xs})
    ELSE ListV(container_type, xs)

\* an option met with its value tokens: argparse casts each token with
\* kwargs["type"] (an error exits), then calls the action
\* setattr(namespace, self.dest, self.container_type(...)) of both actions
SetContainer(option, ns, values) ==
    ParseOk(Put(ns, option.dest, Wrap(option.kwargs.container_type, values)), <<>>)

\* the action with the cast values taken last to first
ContainerCastAction_call_reversed(option, ns, casted) ==
    IF casted.raised # None THEN ParseException(casted.raised)
    ELSE SetContainer(option, ns,
            [i \in DOMAIN casted.val |-> casted.val[Len(casted.val) + 1 - i]])

\* ContainerCastAction.__call__, casted being [self.cast(v) for v in values]
ContainerCastAction_call(option, ns, casted) ==
    IF casted.raised # None THEN ParseException(casted.raised)
    ELSE SetContainer(option, ns, casted.val)

\* ConstrainedContainerAction.__call__ after the cast: checked is what
\* self.validate(values) did
ConstrainedContainerAction_validate(option, ns, values, checked) ==
    IF checked.raised # None THEN ParseException(checked.raised)
    ELSE SetContainer(option, ns, values)

\* ConstrainedContainerAction.__call__ after the length checks, casted being
\* [self.cast(v) for v in values]
ConstrainedContainerAction_cast(option, ns, casted) ==
    IF casted.raised # None THEN ParseException(casted.raised)
    ELSE IF option.kwargs.validate = NoCallable THEN SetContainer(option, ns, casted.val)
    ELSE ConstrainedContainerAction_validate(option, ns, casted.val,
            Validate(option.kwargs.validate, casted.val))

\* the action with the elements cast before they are counted
ConstrainedContainerAction_call_cast_first(option, ns, values) ==
    IF ApplyEach(option.kwargs.cast, values, <<>>).raised # None
    THEN ParseException(ApplyEach(option.kwargs.cast, values, <<>>).raised)
    ELSE IF option.kwargs.min_len # <<>> /\ Len(values) < option.kwargs.min_len[1] THEN ParseError
    ELSE IF option.kwargs.max_len # <<>> /\ Len(values) > option.kwargs.max_len[1] THEN ParseError
    ELSE ConstrainedContainerAction_cast(option, ns,
            ApplyEach(option.kwargs.cast, values, <<>>))

\* ConstrainedContainerAction.__call__
ConstrainedContainerAction_call(option, ns, values) ==
    IF option.kwargs.min_len # <<>> /\ Len(values) < option.kwargs.min_len[1] THEN ParseError
    ELSE IF option.kwargs.max_len # <<>> /\ Len(values) > option.kwargs.max_len[1] THEN ParseError
    ELSE ConstrainedContainerAction_cast(option, ns,
            ApplyEach(option.kwargs.cast, values, <<>>))

\* the action of an option on the values argparse converted with its type
\* callable: an exception of the type callable is a parse error
Action_call(option, ns, typed) ==
    IF typed.raised # None THEN InvalidValue(typed)
    ELSE IF option.kwargs.action = "store"
    THEN ParseOk(Put(ns, option.dest, typed.val[1]), <<>>)
    ELSE IF option.kwargs.action = "ContainerCastAction"
    THEN ContainerCastAction_call(option, ns,
            ApplyEach(option.kwargs.cast, typed.val, <<>>))
    ELSE ConstrainedContainerAction_call(option, ns, typed.val)

\* an option with the tokens argparse hands it
RunOption(option, tokens, ns) ==
    Action_call(option, ns,
        IF option.kwargs.type = NoCallable
        THEN Returned([i \in DOMAIN tokens |-> StrV(tokens[i])])
        ELSE ApplyEach(option.kwargs.type, [i \in DOMAIN tokens |-> StrV(tokens[i])], <<>>))

\* the defaults a parser puts in a namespace before it reads a token: the
\* default of each option and of the sub-parsers action, then set_defaults
InitialNamespace(parser) ==
    LET opts == [k \in {parser.options[i].dest : i \in DOMAIN parser.options} |->
                    (parser.options[CHOOSE i \in DOMAIN parser.options :
                                        parser.options[i].dest = k]).default]
        withDest == IF parser.subparsers THEN PutMissing(opts, (parser.dest :> NoneV)) ELSE opts
    IN PutMissing(withDest, parser.defaults)

\* parse_known_args of the parser at path p on args from position i, with the
\* options seen so far and the arguments no parser recognised
RECURSIVE ParseFrom(_, _, _, _, _, _, _)
\* the tokens an option takes of those that follow it
Taken(option, values) ==
    IF option.kwargs.nargs = "+" THEN values ELSE SubSeq(values, 1, 1)

\* on from position i once an option's action has run with outcome r
AfterOption(ps, p, args, i, seen, extras, r) ==
    IF r.status # "ok" THEN r
    ELSE ParseFrom(ps, p, args, i, r.ns, seen, extras)

\* the option string at position i, with the value tokens that follow it
ConsumeOption(ps, p, args, i, ns, seen, extras, option, values) ==
    IF Taken(option, values) = <<>> THEN ParseError
    ELSE AfterOption(ps, p, args, i + 1 + Len(Taken(option, values)),
                     seen \cup {option.dest}, extras,
                     RunOption(option, Taken(option, values), ns))

\* the sub-parsers action at position i: sub is what the chosen parser made
\* of the rest, in a namespace of its own that is then copied over this one
AfterSubparser(ps, p, args, i, ns, seen, extras, sub) ==
    IF sub.status # "ok" THEN sub
    ELSE IF \E k \in DOMAIN ps[p].options :
                ps[p].options[k].required /\ ps[p].options[k].dest \notin seen
    THEN ParseError
    ELSE ParseOk(PutAll(Put(ns, ps[p].dest, StrV(args[i])), sub.ns),
                 extras \o sub.extras)

ParseFrom(ps, p, args, i, ns, seen, extras) ==
    IF i > Len(args)
    THEN \* the end: a required option or sub-command that was not given
         IF \E k \in DOMAIN ps[p].options :
                ps[p].options[k].required /\ ps[p].options[k].dest \notin seen
         THEN ParseError
         ELSE IF ps[p].subparsers /\ ps[p].required THEN ParseError
         ELSE ParseOk(ns, extras)
    ELSE IF IsOptionString(args[i])
    THEN IF OptionsNamed(ps[p], args[i]) = {}
         THEN ParseFrom(ps, p, args, i + 1, ns, seen, Append(extras, args[i]))
         ELSE ConsumeOption(ps, p, args, i, ns, seen, extras,
                  ps[p].options[CHOOSE k \in OptionsNamed(ps[p], args[i]) : TRUE],
                  ValuesAfter(args, i + 1))
    ELSE IF ~ps[p].subparsers
    THEN ParseFrom(ps, p, args, i + 1, ns, seen, Append(extras, args[i]))
    ELSE IF args[i] \notin ps[p].choices THEN ParseError
    ELSE AfterSubparser(ps, p, args, i, ns, seen, extras,
            ParseFrom(ps, Append(p, args[i]), args, i + 1,
                      InitialNamespace(ps[Append(p, args[i])]), {}, <<>>))

\* parser.parse_args(): arguments left unrecognised are an error
NoExtras(r) == IF r.status = "ok" /\ r.extras # <<>> THEN ParseError ELSE r

\* parser.parse_args()
parse_args(ps, args) ==
    NoExtras(ParseFrom(ps, <<>>, args, 1, InitialNamespace(ps[<<>>]), {}, <<>>))

-----------------------------------------------------------------------------
(* runner(): dispatch *)

\* what running the program did: the stage of main() that decided it, the
\* exception that left main(), the status sys.exit() was called with, the
\* parsers whose help was printed, the calls runner made to registered
\* functions, the value main() returned, the namespace runner was given, and
\* the value the message of a parse error shows
Outcome(stage, raised, exit, help, calls, ret, ns) ==
    [ran |-> TRUE, stage |-> stage, raised |-> raised, exit |-> exit,
     help |-> help, calls |-> calls, ret |-> ret, ns |-> ns, shown |-> <<>>]

\* no sys.exit() was called
NoExit == <<>>
Exit(n) == <<n>>

\* only the four fixed keys, leaving the subcmd_ ones in
keys_to_remove_fixed(func_args) == {"func", "command", "command_path", "is_base"}

\* keys_to_remove of runner
keys_to_remove(func_args) ==
    {"func", "command", "command_path", "is_base"}
        \cup {k \in DOMAIN func_args : StartsWith(k, "subcmd_")}

\* func(**kwargs) in runner, func being args.func: the handler of a base
\* command prints the help of its own sub-parser and exits with status 0 (it
\* takes no argument); a registered function is called, and what it returns
\* is dropped
Invoke(func, kwargs, ns) ==
    IF func[1] = "help_handler"
    THEN IF kwargs = EmptyDict
         THEN Outcome("runner", None, Exit(0), <<func[2]>>, <<>>, NoneV, ns)
         ELSE Outcome("runner", "TypeError", NoExit, <<>>, <<>>, NoneV, ns)
    ELSE Outcome("runner", Call(func[2], kwargs).raised, NoExit, <<>>,
                 <<[func |-> func[2], kwargs |-> kwargs]>>, NoneV, ns)

\* runner without its is_base branch: a base command is dispatched like a leaf
runner_forwarding(ns) ==
    IF "command" \notin DOMAIN ns \/ ns["command"] = NoneV
    THEN Outcome("runner", None, Exit(0), <<<<>>>>, <<>>, NoneV, ns)
    ELSE IF "func" \notin DOMAIN ns \/ ns["func"] = NoneV
    THEN Outcome("runner", None, Exit(1), <<<<>>>>, <<>>, NoneV, ns)
    ELSE Invoke(ns["func"], [k \in (DOMAIN ns) \ keys_to_remove(ns) |-> ns[k]], ns)

\* runner(args, parser), args being the namespace ns; it has no return
\* statement that returns a value
runner(ns) ==
    IF "command" \notin DOMAIN ns \/ ns["command"] = NoneV
    THEN Outcome("runner", None, Exit(0), <<<<>>>>, <<>>, NoneV, ns)
    ELSE IF "func" \notin DOMAIN ns \/ ns["func"] = NoneV
    THEN Outcome("runner", None, Exit(1), <<<<>>>>, <<>>, NoneV, ns)
    ELSE IF "is_base" \in DOMAIN ns /\ ns["is_base"] = BoolV(TRUE)
    THEN Invoke(ns["func"], EmptyDict, ns)
    ELSE Invoke(ns["func"], [k \in (DOMAIN ns) \ keys_to_remove(ns) |-> ns[k]], ns)

\* main() from parser.parse_args() on, parsed being what parse_args did;
\* main() has no return statement
run_parsed(parsed) ==
    IF parsed.status = "error"
    THEN [Outcome("parse_args", None, Exit(2), <<>>, <<>>, NoneV, EmptyDict)
            EXCEPT !.shown = parsed.shown]
    ELSE IF parsed.status = "exception"
    THEN Outcome("parse_args", parsed.raised, NoExit, <<>>, <<>>, NoneV, EmptyDict)
    ELSE [runner(parsed.ns) EXCEPT !.ret = NoneV]

\* main() from register(subparsers) on, b being what register did
run_registered(b, args) ==
    IF b.raised # None
    THEN Outcome("register", b.raised, NoExit, <<>>, <<>>, NoneV, EmptyDict)
    ELSE run_parsed(parse_args(b.parsers, args))

\* main(): what a run of the program does on the tree t with arguments args
main_result(t, args) == run_registered(register(t), args)

-----------------------------------------------------------------------------
(* Running the program *)

\* longest command path, and number of decorator applications, of the runs
\* that go on to main()
CliDepth == 2
CliRegs == 2

FlagLists ==
    {<<>>, <<"--x", "3">>, <<"--x", "-1">>, <<"--x", "q">>,
     <<"--x", "3", "--y", "7">>, <<"--v", "1", "2">>, <<"--v", "1", "-2">>}

\* command lines: the path of a node of the tree, with flags after its last
\* or its last but one segment
CommandLines(t) ==
    UNION {{SubSeq(p, 1, k) \o flags \o SubSeq(p, k + 1, Len(p)) :
                k \in {Len(p) - 1, Len(p)} \cap Nat, flags \in FlagLists} :
           p \in DOMAIN t}

\* the functions of the program: add(x: int >= 0, y: int = 5) and
\* tot(v: list of int >= 0), so that one's declared type plays no part
Init == Loaded /\ annotation = Scalar("int")

main(args) ==
    /\ pc = "import"
    /\ pc' = "done"
    /\ argv' = args
    /\ parsers' = register(tree).parsers
    /\ tree' = register(tree).tree
    /\ out' = main_result(tree, args)
    /\ UNCHANGED <<nregs, result, annotation>>

-----------------------------------------------------------------------------
(* Registration alone, on deep paths *)

NextTree ==
    \/ \E names \in NamesUpTo(MaxDepth), func \in CmdFuncs : cmd(names, func)
    \/ \E func \in CmdFuncs : cmd_bare(func)
    \/ \E names \in NamesUpTo(MaxDepth), func \in BaseFuncs : base(names, func)

SpecTree == Init /\ [][NextTree]_vars

-----------------------------------------------------------------------------
(* Registration followed by one invocation *)

Next ==
    \/ \E names \in NamesUpTo(CliDepth), func \in CmdFuncs :
            nregs < CliRegs /\ cmd(names, func)
    \/ \E func \in CmdFuncs : nregs < CliRegs /\ cmd_bare(func)
    \/ \E names \in NamesUpTo(CliDepth), func \in BaseFuncs :
            nregs < CliRegs /\ base(names, func)
    \/ \E args \in CommandLines(tree) : main(args)

Spec == Init /\ [][Next]_vars

-----------------------------------------------------------------------------
(* One command, one(x), over the declared types, and one invocation *)

\* most tokens given to --x
MaxTokens == 2

\* the tokens given to --x: numbers and text, and for a declared type that
\* names bool the spellings of the truth values
Tokens == {"9", "10", "11", "12", "10.5", "q"}
BoolTokens == {"True", "T", "yes", "1", "False", "F", "no", "0", "tRuE", "A", "10"}
TokensFor(h) ==
    IF h.origin = "bool" \/ \E i \in DOMAIN h.args : h.args[i] = "bool"
    THEN BoolTokens ELSE Tokens
\* none (the flag is not given), or 1..MaxTokens of them
TokenLists(h) == UNION {[1..n -> TokensFor(h)] : n \in 0..MaxTokens}
\* the command line that gives the tokens to --x of the command a
CommandLine(tokens) ==
    IF tokens = <<>> THEN <<"a">> ELSE <<"a", "--x">> \o tokens

\* two constraints on one type
MetadataPairs ==
    {<<Ge(10), Le(11)>>, <<Lt(10), Gt(10)>>, <<Ge(10), Interval(<<>>, <<>>, <<>>, <<11>>)>>,
     <<MinLen(2), Ge(10)>>, <<Ge(10), MaxLen(1)>>, <<MinLen(2), MaxLen(1)>>}

\* the metadata a declared type is annotated with
Metadata ==
    {Gt(10), Ge(10), Lt(10), Le(10)}
        \cup {Interval(gt, ge, lt, le) :
                gt \in {<<>>, <<10>>}, ge \in {<<>>, <<10>>},
                lt \in {<<>>, <<11>>}, le \in {<<>>, <<11>>}}
        \cup {MinLen(2), MaxLen(1), MaxLen(2),
              LenMeta(2, <<2>>), LenMeta(1, <<2>>), LenMeta(2, <<>>)}

\* the types that are annotated
BaseHints ==
    {Scalar(t) : t \in {"int", "float", "str", "bytes", "bool", "list", "set"}}
        \cup {Container(k, e) : k \in ContainerOrigins, e \in {"int", "float", "str"}}
        \cup {Generic("list", <<"int", "str">>)}

\* the declared types of x: scalars, bare containers, containers with their
\* type arguments, and annotated types
Hints ==
    {Scalar(t) : t \in ScalarTypes \cup ContainerOrigins}
        \cup {Container(k, e) : k \in ContainerOrigins, e \in ScalarTypes}
        \cup {Annotated(Annotated(b, m[1]), m[2]) :
                b \in {Scalar("int"), Scalar("str"), Container("list", "int")},
                m \in MetadataPairs}
        \cup {Generic(k, args) : k \in ContainerOrigins,
                args \in {<<"int", "int">>, <<"int", "str">>, <<"int", "Ellipsis">>,
                          <<"int", "Ellipsis", "int">>, <<"Ellipsis", "int">>,
                          <<"Ellipsis">>, <<"list">>}}
        \cup {Annotated(b, m) : b \in BaseHints, m \in Metadata}

InitHandler == Loaded /\ annotation \in Hints

NextHandler ==
    \/ \E func \in HandlerFuncs : nregs = 0 /\ cmd(<<"a">>, func)
    \/ nregs = 0 /\ cmd(<<"_b">>, "raw")
    \/ \E tokens \in TokenLists(annotation) : main(CommandLine(tokens))

SpecHandler == InitHandler /\ [][NextHandler]_vars

-----------------------------------------------------------------------------
(* Vocabulary of the properties *)

\* node kinds: a Leaf holds a command function, a Base holds a base function
\* and no command function
IsLeaf(t, p) == p \in DOMAIN t /\ t[p].func # None
IsBase(t, p) == p \in DOMAIN t /\ t[p].func = None /\ t[p].base_func # None
BaseOrLeaf(t, p) == p \in DOMAIN t /\ (t[p].func # None \/ t[p].base_func # None)

\* the proper, non-empty prefixes of a path
ProperPrefixes(p) == {SubSeq(p, 1, k) : k \in 1..(Len(p) - 1)}

\* the prefixes of names that keep a leaf from being registered there
Offending(t, names) == {q \in ProperPrefixes(names) : ~BaseOrLeaf(t, q)}
Shortest(S) == CHOOSE q \in S : \A r \in S : Len(q) <= Len(r)

\* the sub-command tokens of a command line
IsSegment(tok) == tok \in Segments
SelectedPath(args) == SelectSeq(args, IsSegment)

\* the flags of FlagLists, read as parameter name -> tokens
Supplied(flags) ==
    CASE flags = <<"--x", "3">> -> ("x" :> <<"3">>)
      [] flags = <<"--x", "-1">> -> ("x" :> <<"-1">>)
      [] flags = <<"--x", "q">> -> ("x" :> <<"q">>)
      [] flags = <<"--x", "3", "--y", "7">> -> ("x" :> <<"3">>) @@ ("y" :> <<"7">>)
      [] flags = <<"--v", "1", "2">> -> ("v" :> <<"1", "2">>)
      [] flags = <<"--v", "1", "-2">> -> ("v" :> <<"1", "-2">>)
      [] OTHER -> EmptyDict

\* the parameter of func called name
ParamOf(func, name) ==
    Signature(func)[CHOOSE i \in DOMAIN Signature(func) : Signature(func)[i].name = name]

\* a number meets every inequality declared for the parameter
Meets(hint, n) ==
    \A i \in DOMAIN hint.meta :
        CASE hint.meta[i].tag = "Gt" -> n > hint.meta[i].v
          [] hint.meta[i].tag = "Ge" -> n >= hint.meta[i].v
          [] hint.meta[i].tag = "Lt" -> n < hint.meta[i].v
          [] hint.meta[i].tag = "Le" -> n <= hint.meta[i].v

\* the tokens are valid input for a parameter of this declared type
ValidTokens(hint, tokens) ==
    /\ hint.origin = "int" => Len(tokens) = 1
    /\ \A i \in DOMAIN tokens :
          /\ IntCast(StrV(tokens[i])).raised = None
          /\ Meets(hint, IntCast(StrV(tokens[i])).val[2])

\* the typed value of valid tokens
TypedValue(hint, tokens) ==
    IF hint.origin = "int" THEN IntCast(StrV(tokens[1])).val
    ELSE ListV(hint.origin, [i \in DOMAIN tokens |-> IntCast(StrV(tokens[i])).val])

\* the keyword arguments the flags stand for: the typed value of each flag
\* given, the declared default of each flag omitted
ExpectedKwargs(func, flags) ==
    [name \in ParamNames(func) |->
        IF name \in DOMAIN Supplied(flags)
        THEN TypedValue(ParamOf(func, name).hint, Supplied(flags)[name])
        ELSE ParamOf(func, name).default]

\* the keys runner is to strip from the parsed mapping
Bookkeeping(ns) ==
    {"func", "command", "command_path", "is_base"}
        \cup {k \in DOMAIN ns : Len(k) >= 7 /\ SubSeq(k, 1, 7) = "subcmd_"}

-----------------------------------------------------------------------------
(* Properties *)

C2_NoOrphanedLeaves ==
    \A p \in DOMAIN tree :
        (Len(p) >= 2 /\ tree[p].func # None) =>
            \A q \in ProperPrefixes(p) : BaseOrLeaf(tree, q)

\* a leaf below a registered parent
C2_Witness ==
    \E p \in DOMAIN tree : Len(p) >= 2 /\ tree[p].func # None /\ nregs = MaxRegs

\* C3: for a leaf at a non-empty path whose ancestors are all Base, invoking
\* the program with that path and flags of the leaf's parameters calls the
\* leaf once with the typed value of each flag given and the default of each
\* flag omitted; an omitted flag without default is a parse error, an invalid
\* value ends the invocation with a non-zero status, and neither calls the
\* function.
C3_LeafCalledWithTypedValues ==
    \A p \in DOMAIN tree, flags \in FlagLists :
        ( /\ pc = "done"
          /\ argv = p \o flags
          /\ p # <<>>
          /\ IsLeaf(tree, p)
          /\ \A q \in ProperPrefixes(p) : IsBase(tree, q)
          /\ DOMAIN Supplied(flags) \subseteq ParamNames(tree[p].func) )
        => LET func == tree[p].func
               given == Supplied(flags)
           IN IF \E name \in DOMAIN given : ~ValidTokens(ParamOf(func, name).hint, given[name])
              THEN /\ out.calls = <<>>
                   /\ out.exit # Exit(0)
                   /\ (out.exit # NoExit \/ out.raised # None)
              ELSE IF \E name \in RequiredNames(func) : name \notin DOMAIN given
              THEN /\ out.calls = <<>>
                   /\ out.stage = "parse_args"
                   /\ out.exit = Exit(2)
              ELSE /\ out.raised = None
                   /\ out.exit = NoExit
                   /\ out.calls = <<[func |-> func, kwargs |-> ExpectedKwargs(func, flags)]>>

\* C4: a user-input failure met while parsing ends the invocation as a parse
\* error with a non-zero exit status, and never as an exception that leaves
\* parse_args.
C4_InputFailuresAreParseErrors ==
    (pc = "done" /\ out.stage = "parse_args") =>
        /\ out.raised = None
        /\ out.exit # NoExit
        /\ out.exit # Exit(0)

\* C5: main() run with no sub-command token prints the top-level help and
\* exits with status 0.
C5_NoCommandPrintsHelp ==
    (pc = "done" /\ argv = <<>>) =>
        /\ out.help = <<<<>>>>
        /\ out.exit = Exit(0)

\* C6: when the selected command path ends at a Base node, dispatch prints
\* the help of that node's own parser and exits with status 0; no registered
\* function is called.
C6_BaseDispatchPrintsOwnHelp ==
    ( /\ pc = "done"
      /\ out.stage = "runner"
      /\ SelectedPath(argv) # <<>>
      /\ IsBase(tree, SelectedPath(argv)) )
    => /\ out.help = <<SelectedPath(argv)>>
       /\ out.exit = Exit(0)
       /\ out.raised = None
       /\ out.calls = <<>>

\* a base command below a leaf, dispatched with the leaf's flags parsed
C6_Witness ==
    /\ pc = "done"
    /\ out.stage = "runner"
    /\ Len(SelectedPath(argv)) = 2
    /\ IsBase(tree, SelectedPath(argv))
    /\ "x" \in DOMAIN out.ns
    /\ out.help = <<SelectedPath(argv)>>

\* C7: when the selected command is a Leaf, runner calls its function with
\* the parsed mapping less func, command, command_path, is_base and every
\* key that starts with subcmd_, and with nothing else removed or changed.
C7_LeafGetsMappingLessBookkeeping ==
    ( /\ pc = "done"
      /\ out.stage = "runner"
      /\ SelectedPath(argv) # <<>>
      /\ IsLeaf(tree, SelectedPath(argv)) )
    => out.calls =
          <<[func |-> tree[SelectedPath(argv)].func,
             kwargs |-> [k \in (DOMAIN out.ns) \ Bookkeeping(out.ns) |-> out.ns[k]]]>>

\* a leaf with sub-commands of its own is called: the mapping holds a subcmd_
\* key besides the four fixed ones and the leaf's parameters
C7_Witness ==
    /\ pc = "done"
    /\ out.stage = "runner"
    /\ out.calls # <<>>
    /\ out.raised = None
    /\ \E k \in DOMAIN out.ns : Len(k) >= 7 /\ SubSeq(k, 1, 7) = "subcmd_"
    /\ DOMAIN out.calls[1].kwargs # {}

\* C8: main() returns the value of the command function it dispatched to.
C8_MainReturnsFunctionValue ==
    (pc = "done" /\ out.calls # <<>> /\ out.raised = None) =>
        out.ret = Body(out.calls[1].func, out.calls[1].kwargs)

\* C9: @cmd applied to a function without parentheses raises ValueError and
\* leaves the command tree as it was.
C9_BareCmdRaisesValueError ==
    result.op = "cmd_bare" =>
        /\ result.raised = "ValueError"
        /\ tree = result.before

\* C10: after @base at a non-empty path P, whatever the node was before,
\* build gives P a parameterless sub-parser with is_base = true, and invoking
\* P prints its help and calls no function.  Stated for the paths that build
\* walks down to: no segment begins with an underscore and every ancestor is
\* a Base or a Leaf.
C10_BaseRegistrationMakesBaseNode ==
    ( /\ pc = "done"
      /\ result.op = "base"
      /\ result.names # <<>>
      /\ \A i \in DOMAIN result.names : SubSeq(result.names[i], 1, 1) # "_"
      /\ \A q \in ProperPrefixes(result.names) : BaseOrLeaf(tree, q) )
    => /\ result.raised = None
       /\ result.names \in DOMAIN parsers
       /\ parsers[result.names].options = <<>>
       /\ parsers[result.names].defaults["is_base"] = BoolV(TRUE)
       /\ (argv = result.names =>
               /\ out.help = <<result.names>>
               /\ out.exit = Exit(0)
               /\ out.calls = <<>>)

\* a pure Group: a node with children and neither function
IsGroup(t, p) ==
    p \in DOMAIN t /\ t[p].func = None /\ t[p].base_func = None /\ t[p].subcommands

\* no segment of the path begins with an underscore
PlainNames(p) == \A i \in DOMAIN p : SubSeq(p[i], 1, 1) # "_"

\* C11: after a successful @cmd at a non-empty path P with function h,
\* whatever the node was before, build gives P a sub-parser whose defaults
\* are func = h and is_base = false, and an invocation that selects P calls
\* h and no other function.
C11_LeafRegistrationMakesLeafNode ==
    ( /\ pc = "done"
      /\ result.op = "cmd"
      /\ result.raised = None
      /\ result.names # <<>> )
    => /\ result.names \in DOMAIN parsers
       /\ parsers[result.names].defaults["func"] = FuncV(result.func)
       /\ parsers[result.names].defaults["is_base"] = BoolV(FALSE)
       /\ ((out.stage = "runner" /\ SelectedPath(argv) = result.names) =>
               /\ Len(out.calls) = 1
               /\ out.calls[1].func = result.func)

\* C12: build gives a pure Group a pass-through sub-parser without defaults
\* of its own, and every Base or Leaf below it a sub-parser under it that
\* its full path selects.  Stated for paths without a segment that begins
\* with an underscore.
C12_GroupIsPassThrough ==
    pc = "done" =>
        \A p \in DOMAIN tree :
            ( /\ PlainNames(p)
              /\ BaseOrLeaf(tree, p)
              /\ \E g \in ProperPrefixes(p) : IsGroup(tree, g)
              /\ \A q \in ProperPrefixes(p) : IsGroup(tree, q) \/ BaseOrLeaf(tree, q) )
            => /\ p \in DOMAIN parsers
               /\ \A g \in ProperPrefixes(p) :
                     IsGroup(tree, g) =>
                        g \in DOMAIN parsers /\ parsers[g].defaults = EmptyDict
               /\ ((argv = p /\ IsBase(tree, p)) =>
                       out.help = <<p>> /\ out.exit = Exit(0))

-----------------------------------------------------------------------------
(* Vocabulary of the properties about declared types *)

\* one(x) is the command "a", and the program has run on "a --x token ..."
RanOne ==
    /\ pc = "done" /\ IsLeaf(tree, <<"a">>) /\ tree[<<"a">>].func = "one"
    /\ Len(argv) > 2
Given == SubSeq(argv, 3, Len(argv))

\* the parsers could not be built: a TypeError before parse_args is called
BuildFailed == out.stage = "register" /\ out.raised = "TypeError"
\* the argument was accepted: one was called, and with what
Accepted == out.raised = None /\ out.exit = NoExit /\ Len(out.calls) = 1
Parsed == out.calls[1].kwargs["x"]
\* the argument was rejected: one was not called
Rejected == out.stage = "parse_args" /\ out.calls = <<>>

\* the tokens that are decimal numbers, with ten times their value
Tenths == ("9" :> 90) @@ ("10" :> 100) @@ ("11" :> 110) @@ ("12" :> 120) @@ ("10.5" :> 105)
\* the tokens the element type e casts
Castable(e, tok) ==
    CASE e = "int" -> tok \in DOMAIN Tenths /\ Tenths[tok] % 10 = 0
      [] e = "float" -> tok \in DOMAIN Tenths
      [] e = "str" -> TRUE
\* the value e casts a castable token to
CastValue(e, tok) ==
    CASE e = "int" -> IntV(Tenths[tok] \div 10)
      [] e = "float" -> IF Tenths[tok] % 10 = 0 THEN FloatV(Tenths[tok] \div 10, 1)
                        ELSE FloatV(Tenths[tok], 10)
      [] e = "str" -> StrV(tok)
\* the container k of the cast tokens: in the order given for a list and a
\* tuple, as a set of values for a set
CastContainer(k, e, toks) ==
    IF k = "set" THEN <<"set", {CastValue(e, toks[i]) : i \in DOMAIN toks}>>
    ELSE <<k, [i \in DOMAIN toks |-> CastValue(e, toks[i])]>>

\* the declared type is the scalar e, or k[e], under the one metadata m
IsScalar(h, e) == h.origin = e /\ h.args = <<>>
IsContainer(h, k, e) == h.origin = k /\ h.args = <<e>>
Under(h) == h.meta[1]
Constrained(h) == Len(h.meta) = 1

\* what a declared type of a number, or of a container of numbers, yields on
\* the tokens given when every token is acceptable, ok(tok) saying which are:
\* a scalar takes exactly one token
NumericOutcome(h, ok(_)) ==
    /\ \A e \in {"int", "float"} :
        (IsScalar(h, e) /\ Len(Given) = 1) =>
            /\ Accepted <=> (Castable(e, Given[1]) /\ ok(Given[1]))
            /\ Accepted => Parsed = CastValue(e, Given[1])
            /\ ~Accepted => Rejected
    /\ \A k \in ContainerOrigins, e \in {"int", "float"} :
        IsContainer(h, k, e) =>
            /\ Accepted <=> \A i \in DOMAIN Given : Castable(e, Given[i]) /\ ok(Given[i])
            /\ Accepted => Parsed = CastContainer(k, e, Given)
            /\ ~Accepted => Rejected

-----------------------------------------------------------------------------
(* C13: Gt, Ge, Lt and Le *)

\* the comparison the constraint m names, on a token that is a number
Satisfies(m, tok) ==
    CASE m.tag = "Gt" -> Tenths[tok] > 10 * m.v
      [] m.tag = "Ge" -> Tenths[tok] >= 10 * m.v
      [] m.tag = "Lt" -> Tenths[tok] < 10 * m.v
      [] m.tag = "Le" -> Tenths[tok] <= 10 * m.v

\* C13: under Gt, Ge, Lt or Le with threshold t, an int or float scalar, or a
\* list, tuple or set of them, is accepted exactly when every token casts to
\* a value that satisfies the comparison with t; the parsed value is then the
\* cast value, or the declared container of the cast values; one violating
\* element rejects the whole argument.
C13_InequalityAcceptsExactlySatisfying ==
    (RanOne /\ Constrained(annotation) /\ Under(annotation).tag \in InequalityTags)
        => LET m == Under(annotation)
               ok(tok) == Satisfies(m, tok)
           IN NumericOutcome(annotation, ok)

\* a list of two numbers of which exactly one violates the bound is rejected
C13_Witness ==
    /\ RanOne /\ annotation = Annotated(Container("list", "int"), Ge(10))
    /\ Given = <<"11", "9">> /\ Rejected

-----------------------------------------------------------------------------
(* C14: Interval *)

\* at most one lower bound and at most one upper bound are given
WellFormed(m) == ~(m.gt # <<>> /\ m.ge # <<>>) /\ ~(m.lt # <<>> /\ m.le # <<>>)

\* each bound the interval m specifies, with its inclusivity, on a token that
\* is a number
Within(m, tok) ==
    /\ m.gt # <<>> => Tenths[tok] > 10 * m.gt[1]
    /\ m.ge # <<>> => Tenths[tok] >= 10 * m.ge[1]
    /\ m.lt # <<>> => Tenths[tok] < 10 * m.lt[1]
    /\ m.le # <<>> => Tenths[tok] <= 10 * m.le[1]

\* C14: under an Interval with an optional lower bound (gt or ge) and an
\* optional upper bound (lt or le), an int or float scalar, or a list, tuple
\* or set of them, is accepted exactly when every token casts to a value that
\* satisfies each specified bound with its inclusivity; the parsed value is
\* then the cast value, or the declared container of the cast values.
C14_IntervalAcceptsExactlyWithin ==
    (RanOne /\ Constrained(annotation) /\ Under(annotation).tag = "Interval"
            /\ WellFormed(Under(annotation)))
        => LET m == Under(annotation)
               ok(tok) == Within(m, tok)
           IN NumericOutcome(annotation, ok)

\* Interval(ge=10, le=11) accepts a list that holds both of its bounds
C14_Witness ==
    /\ RanOne
    /\ annotation = Annotated(Container("list", "int"), Interval(<<>>, <<10>>, <<>>, <<11>>))
    /\ Given = <<"10", "11">> /\ Accepted

-----------------------------------------------------------------------------
(* C15: Interval with two lower or two upper bounds *)

\* C15: an Interval that gives both gt and ge, or both lt and le, makes the
\* build of the parsers fail with a TypeError, whatever the base type it
\* annotates, before any token is parsed.
C15_DoubleBoundFailsAtBuild ==
    (RanOne /\ Constrained(annotation) /\ Under(annotation).tag = "Interval"
            /\ ~WellFormed(Under(annotation)))
        => BuildFailed /\ out.calls = <<>> /\ out.exit = NoExit

\* an int under Interval(gt=10, ge=10), given a token within it
C15_Witness ==
    /\ RanOne
    /\ annotation = Annotated(Scalar("int"), Interval(<<10>>, <<10>>, <<>>, <<>>))
    /\ Given = <<"11">> /\ BuildFailed

-----------------------------------------------------------------------------
(* C16: length constraints on a str *)

\* the length n is within the bounds the constraint m specifies: the minimum
\* of MinLen and Len, the maximum of MaxLen and of a Len that gives one
LengthOk(m, n) ==
    /\ m.has_min => n >= m.min_length[1]
    /\ (m.has_max /\ m.max_length # <<>>) => n <= m.max_length[1]

\* C16: a str under MinLen, MaxLen or Len is accepted exactly when the
\* length of the token is within the bounds the constraint specifies (a Len
\* that gives no maximum accepts every length from its minimum on), and the
\* parsed value is then the token.
C16_StrLengthAcceptsExactlyWithin ==
    (RanOne /\ IsScalar(annotation, "str") /\ Constrained(annotation)
            /\ Under(annotation).tag \in LenTags /\ Len(Given) = 1)
        => /\ Accepted <=> LengthOk(Under(annotation), Len(Given[1]))
           /\ Accepted => Parsed = StrV(Given[1])

-----------------------------------------------------------------------------
(* C17: length constraints on a list, tuple or set *)

\* the declared type is k[e] under a length constraint
LengthConstrained(h, k, e) ==
    IsContainer(h, k, e) /\ Constrained(h) /\ Under(h).tag \in LenTags

\* C17, as stated: a list, tuple or set under MinLen, MaxLen or Len is
\* accepted exactly when the number of tokens given is within the bounds the
\* constraint specifies, and the parsed value is then the declared container
\* of the cast tokens.
C17_CountAloneDecides ==
    \A k \in ContainerOrigins, e \in {"int", "float", "str"} :
        (RanOne /\ LengthConstrained(annotation, k, e))
            => /\ Accepted <=> LengthOk(Under(annotation), Len(Given))
               /\ Accepted => Parsed = CastContainer(k, e, Given)

\* C17, amended: a list, tuple or set under MinLen, MaxLen or Len is accepted
\* exactly when the number of tokens given is within the bounds the
\* constraint specifies and the element type casts every token; the tokens
\* are counted before any is cast, so that a count outside the bounds is a
\* parse error whatever the tokens are; the parsed value is the declared
\* container of the cast tokens.
C17_CountThenCastDecides ==
    \A k \in ContainerOrigins, e \in {"int", "float", "str"} :
        (RanOne /\ LengthConstrained(annotation, k, e))
            => /\ Accepted <=> /\ LengthOk(Under(annotation), Len(Given))
                               /\ \A i \in DOMAIN Given : Castable(e, Given[i])
               /\ Accepted => Parsed = CastContainer(k, e, Given)
               /\ ~LengthOk(Under(annotation), Len(Given))
                    => out.exit = Exit(2) /\ out.raised = None /\ out.calls = <<>>

\* one token that int does not cast, where MinLen(2) asks for two tokens: the
\* count is what rejects it
C17_Witness ==
    /\ RanOne /\ annotation = Annotated(Container("tuple", "int"), MinLen(2))
    /\ Given = <<"q">> /\ out.exit = Exit(2)

-----------------------------------------------------------------------------
(* C18: a constraint on a base type it does not apply to *)

\* the base types a comparison or an interval applies to: int, float, and a
\* list, tuple or set of int or of float
NumericTarget(h) ==
    \/ h.args = <<>> /\ h.origin \in {"int", "float"}
    \/ /\ h.origin \in ContainerOrigins /\ h.args # <<>>
       /\ \E e \in {"int", "float"} : \A i \in DOMAIN h.args : h.args[i] = e

\* the base types a length applies to: str, bytes, and a list, tuple or set
LengthTarget(h) ==
    \/ h.args = <<>> /\ h.origin \in {"str", "bytes"}
    \/ h.origin \in ContainerOrigins

\* the constraint m does not apply to the base type of h
Incompatible(h, m) ==
    \/ m.tag \in InequalityTags /\ ~NumericTarget(h)
    \/ m.tag = "Interval" /\ WellFormed(m) /\ ~NumericTarget(h)
    \/ m.tag \in LenTags /\ ~LengthTarget(h)

\* C18: a constraint on a base type it does not apply to (Gt, Ge, Lt, Le or
\* Interval on anything but int, float or a list, tuple or set of int or of
\* float; MinLen, MaxLen or Len on anything but str, bytes or a list, tuple or
\* set) makes the build of the parsers fail with a TypeError.
C18_IncompatibleTargetFailsAtBuild ==
    (RanOne /\ Constrained(annotation) /\ Incompatible(annotation, Under(annotation)))
        => BuildFailed /\ out.calls = <<>>

-----------------------------------------------------------------------------
(* C20: containers without an element type, or with mixed type arguments *)

\* the type arguments name one element type: the same type throughout, with
\* at most an ellipsis after them, as in tuple[int, ...]
Homogeneous(args) ==
    LET types == IF args # <<>> /\ args[Len(args)] = "Ellipsis"
                 THEN SubSeq(args, 1, Len(args) - 1) ELSE args
    IN /\ types # <<>>
       /\ \A i \in DOMAIN types : types[i] = types[1] /\ types[i] # "Ellipsis"

\* C20: a parameter declared as a list, tuple or set with no type argument,
\* or with type arguments that do not name one element type (an ellipsis
\* anywhere but last among them), makes the build of the parsers fail with a
\* TypeError.
C20_UntypedOrMixedContainerFailsAtBuild ==
    (RanOne /\ annotation.origin \in ContainerOrigins /\ ~Homogeneous(annotation.args))
        => BuildFailed /\ out.calls = <<>>

-----------------------------------------------------------------------------
(* C19: list, tuple and set of int, float or str *)

\* the declared type is k[e] itself, and e casts every token given
PlainContainer(h, k, e) ==
    IsContainer(h, k, e) /\ h.meta = <<>> /\ \A i \in DOMAIN Given : Castable(e, Given[i])

\* the number of elements of a parsed container
Size(v) == IF v[1] = "set" THEN Cardinality(v[2]) ELSE Len(v[2])

\* C19, as stated: for k in list, tuple, set and e in int, float, str,
\* parsing N tokens for k[e] yields a k of N elements, the tokens cast by e,
\* in the order given for a list and a tuple.
C19_ContainerOfNElements ==
    \A k \in ContainerOrigins, e \in {"int", "float", "str"} :
        (RanOne /\ PlainContainer(annotation, k, e))
            => /\ Accepted
               /\ Parsed = CastContainer(k, e, Given)
               /\ Size(Parsed) = Len(Given)

\* C19, amended: for k in list, tuple, set and e in int, float, str, parsing
\* N tokens for k[e] yields a k of the tokens cast by e; a list and a tuple
\* have N elements, in the order given, and a set has as many elements as
\* there are distinct cast values among the N.
C19_ContainerOfCastTokens ==
    \A k \in ContainerOrigins, e \in {"int", "float", "str"} :
        (RanOne /\ PlainContainer(annotation, k, e))
            => /\ Accepted
               /\ Parsed = CastContainer(k, e, Given)
               /\ k # "set" => Size(Parsed) = Len(Given)
               /\ k = "set" =>
                    Size(Parsed) = Cardinality({CastValue(e, Given[i]) : i \in DOMAIN Given})

\* a set of int parsed from the same token twice has one element
C19_Witness ==
    /\ RanOne /\ annotation = Container("set", "int")
    /\ Given = <<"9", "9">> /\ Accepted /\ Size(Parsed) = 1

-----------------------------------------------------------------------------
(* C21: bool *)

\* the tokens that spell true and false, in any letter case
SpellTrue == {"True", "T", "yes", "1", "tRuE"}
SpellFalse == {"False", "F", "no", "0"}
\* the parse failed, and its message shows the token
RejectedNaming(tok) ==
    Rejected /\ out.raised = None /\ out.exit = Exit(2) /\ out.shown = <<StrV(tok)>>

\* C21: a token given to a bool parameter parses to true when it spells
\* true, t, yes or 1 in any letter case, to false when it spells false, f, no
\* or 0 in any letter case, and any other token is a parse failure whose
\* message names the token.
C21_BoolSpellings ==
    (RanOne /\ annotation = Scalar("bool") /\ Len(Given) = 1) =>
        /\ Given[1] \in SpellTrue => (Accepted /\ Parsed = BoolV(TRUE))
        /\ Given[1] \in SpellFalse => (Accepted /\ Parsed = BoolV(FALSE))
        /\ Given[1] \notin SpellTrue \cup SpellFalse => RejectedNaming(Given[1])
\* each of the three happens: "tRuE" is true, "F" is false, "A" is refused
C21_Witness ==
    /\ RanOne /\ annotation = Scalar("bool") /\ Given = <<"tRuE">>
    /\ Accepted /\ Parsed = BoolV(TRUE)
C21_WitnessFalse ==
    /\ RanOne /\ annotation = Scalar("bool") /\ Given = <<"F">>
    /\ Accepted /\ Parsed = BoolV(FALSE)
C21_WitnessRefused ==
    /\ RanOne /\ annotation = Scalar("bool") /\ Given = <<"A">>
    /\ RejectedNaming("A")

-----------------------------------------------------------------------------
(* C22: a parameter without an Arg annotation *)

\* raw, whose parameter x: int carries no Arg annotation, is a command
HoldsRaw(t) == \E p \in DOMAIN t : Len(p) > 0 /\ t[p].func = "raw"

\* C22: registering a command function that has a parameter without an Arg
\* annotation succeeds and puts the function in the tree; building the parsers
\* of a tree that holds it fails with a TypeError, before parse_args reads a
\* token.
C22_UnannotatedRejectedAtBuild ==
    /\ (result.op = "cmd" /\ result.func = "raw") =>
            (result.raised = None /\ HoldsRaw(tree))
    /\ (pc = "done" /\ HoldsRaw(tree)) => (BuildFailed /\ out.calls = <<>>)

-----------------------------------------------------------------------------
(* C23: the tree once main() runs *)

\* C23: a run of main(), which builds the parsers, parses the command line
\* and dispatches, leaves the command tree as the registrations made it:
\* no node is added, removed or changed.
C23_TreeReadOnlyFromBuild == [][pc' = "done" => tree' = tree]_vars
\* main() has run through all three: the parsers were built of a tree with
\* commands, the command line was parsed, and a function was called
C23_Witness ==
    /\ pc = "done" /\ out.stage = "runner" /\ Len(out.calls) = 1
    /\ Cardinality(DOMAIN tree) > 2
\* and main() has run on the tree no registration has touched
C23_WitnessEmpty == pc = "done" /\ tree = COMMAND_TREE

-----------------------------------------------------------------------------
(* C24: a registration that fails *)

\* C24: a @cmd registration that raises the missing-parent error leaves the
\* command tree exactly as it was before the call.
C24_FailedRegistrationLeavesTree ==
    (pc = "import" /\ result.op = "cmd" /\ result.raised = "MissingBaseCommandError") =>
        tree = result.before

-----------------------------------------------------------------------------
(* C25: the keyword arguments of a leaf *)

\* the names of the parameters func declares
Declared(func) == {Signature(func)[i].name : i \in DOMAIN Signature(func)}

\* C25: when a Leaf is dispatched, the keyword names its function is called
\* with are exactly the parameters the function declares; a leaf nested
\* under a Leaf with parameters is not given the parameters of that ancestor.
C25_LeafGetsOwnParametersOnly ==
    pc = "done" =>
        \A i \in DOMAIN out.calls :
            DOMAIN out.calls[i].kwargs = Declared(out.calls[i].func)

-----------------------------------------------------------------------------
(* C26: the values a function receives *)

\* one(x) or dflt(x = 9) is the command "a", and the program has run
RanEither ==
    /\ pc = "done" /\ IsLeaf(tree, <<"a">>)
    /\ tree[<<"a">>].func \in {"one", "dflt"}

\* the number v, an int or a float, is within the comparison or the interval m
Fulfils(m, v) ==
    LET num == v[2]
        den == IF v[1] = "float" THEN v[3] ELSE 1
    IN CASE m.tag = "Gt" -> num > m.v * den
         [] m.tag = "Ge" -> num >= m.v * den
         [] m.tag = "Lt" -> num < m.v * den
         [] m.tag = "Le" -> num <= m.v * den
         [] m.tag = "Interval" ->
                /\ m.gt # <<>> => num > m.gt[1] * den
                /\ m.ge # <<>> => num >= m.ge[1] * den
                /\ m.lt # <<>> => num < m.lt[1] * den
                /\ m.le # <<>> => num <= m.le[1] * den

\* C26: the value a function is called with for an int or float parameter
\* declared under Gt, Ge, Lt, Le or Interval satisfies that constraint,
\* whether it was parsed from the flag or is the declared default.
C26_ReceivedValueSatisfiesConstraint ==
    (/\ RanEither /\ Constrained(annotation)
     /\ \E e \in {"int", "float"} : IsScalar(annotation, e)
     /\ Under(annotation).tag \in InequalityTags \cup {"Interval"})
        => \A i \in DOMAIN out.calls :
                Fulfils(Under(annotation), out.calls[i].kwargs["x"])

-----------------------------------------------------------------------------
(* C27: two constraints on one type *)

\* every metadata of the declared type h has its tag among tags
AllUnder(h, tags) == \A i \in DOMAIN h.meta : h.meta[i].tag \in tags

\* C27: for a parameter declared with two constraints (comparisons or
\* intervals on an int, lengths on a str), either the build of the parsers
\* fails, or an accepted token satisfies every one of the constraints.
C27_EveryConstraintEnforced ==
    (RanOne /\ Len(annotation.meta) = 2 /\ Len(Given) = 1) =>
        /\ (IsScalar(annotation, "int")
                /\ AllUnder(annotation, InequalityTags \cup {"Interval"}))
            => \/ BuildFailed
               \/ Accepted => \A i \in DOMAIN annotation.meta :
                                    Fulfils(annotation.meta[i], Parsed)
        /\ (IsScalar(annotation, "str") /\ AllUnder(annotation, LenTags))
            => \/ BuildFailed
               \/ Accepted => \A i \in DOMAIN annotation.meta :
                                    LengthOk(annotation.meta[i], Len(Given[1]))

-----------------------------------------------------------------------------
(* C28: conversion under a length constraint *)

\* C28: input accepted for a str, a bytes, or a list, tuple or set of int,
\* float or str under MinLen, MaxLen or Len parses to the value the type
\* alone gives: the token for str, its UTF-8 encoding for bytes, the declared
\* container of the cast tokens for a container.
C28_LengthKeepsConversion ==
    (RanOne /\ Constrained(annotation) /\ Under(annotation).tag \in LenTags /\ Accepted) =>
        /\ IsScalar(annotation, "str") => Parsed = StrV(Given[1])
        /\ IsScalar(annotation, "bytes") => Parsed = BytesV(Given[1])
        /\ \A k \in ContainerOrigins, e \in {"int", "float", "str"} :
                IsContainer(annotation, k, e) => Parsed = CastContainer(k, e, Given)

-----------------------------------------------------------------------------
(* C29: containers of every scalar type *)

\* what the rule of the scalar type e makes of a token: whether it takes it,
\* and the value
ScalarTakes(e, tok) ==
    CASE e \in {"int", "float", "str"} -> Castable(e, tok)
      [] e = "bool" -> tok \in SpellTrue \cup SpellFalse
      [] e \in {"bytes", "Path"} -> TRUE
ScalarGives(e, tok) ==
    CASE e \in {"int", "float", "str"} -> CastValue(e, tok)
      [] e = "bool" -> BoolV(tok \in SpellTrue)
      [] e = "bytes" -> BytesV(tok)
      [] e = "Path" -> FilePathV(tok)

\* C29: for k in list, tuple, set and e in int, float, str, bool, bytes,
\* Path, the parsers of a parameter declared k[e] are built, the tokens are
\* accepted exactly when the rule of e takes each of them, and the parsed
\* value is then the k of the values the rule of e gives.
C29_ContainerOfEveryScalar ==
    \A k \in ContainerOrigins, e \in ScalarTypes :
        (RanOne /\ IsContainer(annotation, k, e) /\ annotation.meta = <<>>) =>
            /\ out.stage # "register"
            /\ Accepted <=> \A i \in DOMAIN Given : ScalarTakes(e, Given[i])
            /\ Accepted =>
                    Parsed = IF k = "set"
                             THEN <<"set", {ScalarGives(e, Given[i]) : i \in DOMAIN Given}>>
                             ELSE <<k, [i \in DOMAIN Given |-> ScalarGives(e, Given[i])]>>

-----------------------------------------------------------------------------
(* C30: every registered node is in the built CLI *)

\* C30: when the program is run with exactly the path of a node that holds
\* a command function or a base function, whatever the names of its
\* segments, the build has given that path a sub-parser; and when the node
\* is a Base below Base nodes only, the run selects it: it prints the help of
\* that node and exits with status 0.
C30_RegisteredNodeIsSelectable ==
    (pc = "done" /\ argv # <<>> /\ BaseOrLeaf(tree, argv)) =>
        /\ argv \in DOMAIN parsers
        /\ (IsBase(tree, argv) /\ \A q \in ProperPrefixes(argv) : IsBase(tree, q))
            => (out.help = <<argv>> /\ out.exit = Exit(0))


====
